---- MODULE Spec2Model ----
(***************************************************************************)
(* A model of the EmailSender utility: src/send_email.py (get_secrets,     *)
(* send_email, test_send_email and the command line front end) and         *)
(* src/custom_logger.py (CustomLogger).                                    *)
(*                                                                         *)
(* Strings are sequences of one-character strings, so that startswith,     *)
(* partition, strip, split and join are computed and not assumed.  Tags    *)
(* are abbreviated: "gu" stands for 'gmail_username', "gp" for             *)
(* 'gmail_password', "wu"/"wp" for a second pair of tags chosen on the     *)
(* command line.                                                           *)
(***************************************************************************)
EXTENDS Integers, Sequences, FiniteSets, TLC

VARIABLES
    pc,      \* position of the (single threaded) run
    inp,     \* the invocation: entry point and its arguments; never changes
    fs,      \* the file system: path -> [exists, data]
    out,     \* the log lines printed on standard output
    loads,   \* the calls of get_secrets made so far: [file, utag, ptag]
    smtp,    \* the SMTP operations attempted so far (network activity)
    loc,     \* the locals of send_email (credentials, recipients, message)
    exc      \* the exception in flight or propagated, "None" when there is none

vars == <<pc, inp, fs, out, loads, smtp, loc, exc>>

\* ---------------------------------------------------------------- bounds

MaxLines == 3        \* lines of a secrets file in SpecSecrets
MaxAttachments == 2  \* length of an attachments list

\* ---------------------------------------------------------------- strings

NL == "\n"
Whitespace == {" ", NL, "\t"}

\* str.startswith
StartsWith(s, t) == Len(t) <= Len(s) /\ SubSeq(s, 1, Len(t)) = t

\* The least / greatest element of a non-empty set of integers.
MinOf(S) == CHOOSE x \in S : \A y \in S : x <= y
MaxOf(S) == CHOOSE x \in S : \A y \in S : y <= x

\* str.find(c) + 1: the first position of character c in s, 0 when absent.
FindChar(s, c) ==
    LET hits == {i \in 1..Len(s) : s[i] = c}
    IN  IF hits = {} THEN 0 ELSE MinOf(hits)

\* str.partition(c)[2]: the text after the first c, empty when c is absent.
PartitionTail(s, c) ==
    LET i == FindChar(s, c)
    IN  IF i = 0 THEN <<>> ELSE SubSeq(s, i + 1, Len(s))

\* str.strip(): leading and trailing whitespace removed.
Strip(s) ==
    LET keep == {i \in 1..Len(s) : s[i] \notin Whitespace}
    IN  IF keep = {} THEN <<>> ELSE SubSeq(s, MinOf(keep), MaxOf(keep))

\* file.readline(): the text up to and including the first newline.
ReadLine(s) ==
    LET i == FindChar(s, NL)
    IN  IF i = 0 THEN s ELSE SubSeq(s, 1, i)

\* What is left of the file after readline().
AfterLine(s) == SubSeq(s, Len(ReadLine(s)) + 1, Len(s))

\* Iterating a text file: its lines, each with its newline.
RECURSIVE FileLines(_)
FileLines(s) ==
    IF s = <<>> THEN <<>> ELSE <<ReadLine(s)>> \o FileLines(AfterLine(s))

\* str.split(c): never empty; "" splits to [""].
RECURSIVE Split(_, _)
Split(s, c) ==
    LET i == FindChar(s, c)
    IN  IF i = 0 THEN <<s>>
        ELSE <<SubSeq(s, 1, i - 1)>> \o Split(SubSeq(s, i + 1, Len(s)), c)

\* sep.join(list)
RECURSIVE Join(_, _)
Join(list, sep) ==
    IF list = <<>> THEN <<>>
    ELSE IF Len(list) = 1 THEN list[1]
    ELSE list[1] \o sep \o Join(Tail(list), sep)

\* ---------------------------------------------------------------- values

GU == <<"g", "u">>            \* 'gmail_username', the default username tag
GP == <<"g", "p">>            \* 'gmail_password', the default password tag
WU == <<"w", "u">>            \* a username tag given with --username-tag
WP == <<"w", "p">>            \* a password tag given with --password-tag
G  == <<"g">>                 \* a tag that is a prefix of both default tags

DEBUG == <<"D", "E", "B", "U", "G">>

Absent == [exists |-> FALSE, data |-> <<>>]
File(d) == [exists |-> TRUE, data |-> d]

\* os.path.isfile
isfile(f, path) == f[path].exists

\* The paths of the model's file system.
SecretsPaths == {"secrets.txt", "nosuch.txt"}
MessagePaths == {"msg.txt", "nomsg.txt"}
AttachmentPaths == {"a.bin", "missing.bin"}
LogPaths == {"app.log", "test.txt"}
Paths == SecretsPaths \cup MessagePaths \cup AttachmentPaths \cup LogPaths

None == <<"None">>            \* Python's None, where a string or a list of paths is optional
NoneList == <<None>>          \* Python's None, where a list of strings is optional

EmptyFs == [p \in Paths |-> Absent]

\* ---------------------------------------------------------------- logger

\* CustomLogger.__init__: the destination is standard output or a file.
IsStdout(log_file) == log_file = "stdout"

\* CustomLogger.error / info / debug: the record rendered by one call made in
\* function func at source line lineno (the timestamp is left out).
error(func, lineno, message) ==
    [level |-> "ERROR", func |-> func, line |-> lineno, msg |-> message]
info(func, lineno, message) ==
    [level |-> "INFO", func |-> func, line |-> lineno, msg |-> message]
debug(func, lineno, message) ==
    [level |-> "DEBUG", func |-> func, line |-> lineno, msg |-> message]

\* The message of the except clauses of test_send_email, which names the
\* exception caught.
ExceptionOccurred(e) == <<"Exception occurred", e>>

\* The write of records recs: printed, or appended to the log file, which is
\* created when absent (open(..., "a+")).
Printed(o, log_file, recs) == IF IsStdout(log_file) THEN o \o recs ELSE o
Appended(f, log_file, recs) ==
    IF IsStdout(log_file) \/ recs = <<>> THEN f
    ELSE [f EXCEPT ![log_file] = File(f[log_file].data \o recs)]

\* ---------------------------------------------------------------- get_secrets

\* Mutant of ScanLines: the scan keeps the first value found for each tag.
RECURSIVE ScanLinesFirstMatch(_, _, _, _, _)
ScanLinesFirstMatch(lines, username_tag, password_tag, username, password) ==
    IF lines = <<>> THEN [username |-> username, password |-> password]
    ELSE LET line == Head(lines)
             u == IF StartsWith(line, username_tag) /\ username = <<>>
                  THEN Strip(PartitionTail(line, ":")) ELSE username
             p == IF StartsWith(line, password_tag) /\ password = <<>>
                  THEN Strip(PartitionTail(line, ":")) ELSE password
         IN  ScanLinesFirstMatch(Tail(lines), username_tag, password_tag, u, p)

\* The loop of get_secrets over the lines of the file: every line that starts
\* with a tag assigns that tag's variable; the scan never stops early.
RECURSIVE ScanLines(_, _, _, _, _)
ScanLines(lines, username_tag, password_tag, username, password) ==
    IF lines = <<>> THEN [username |-> username, password |-> password]
    ELSE LET line == Head(lines)
             u == IF StartsWith(line, username_tag)
                  THEN Strip(PartitionTail(line, ":")) ELSE username
             p == IF StartsWith(line, password_tag)
                  THEN Strip(PartitionTail(line, ":")) ELSE password
         IN  ScanLines(Tail(lines), username_tag, password_tag, u, p)

\* Mutant of get_secrets: a secrets file that does not exist is not an error.
get_secrets_no_isfile(f, secrets_file, username_tag, password_tag) ==
    LET r == ScanLines(FileLines(f[secrets_file].data),
                       username_tag, password_tag, <<>>, <<>>)
    IN  [exc |-> IF isfile(f, secrets_file) /\ (r.username = <<>> \/ r.password = <<>>)
                 THEN "ValueError" ELSE "None",
         username |-> r.username, password |-> r.password,
         logs |-> <<info("get_secrets", 53, <<"Loading secrets">>)>>]

\* get_secrets: the exception raised ("None" on success), the pair returned
\* and the log records written.
get_secrets(f, secrets_file, username_tag, password_tag) ==
    LET loading == info("get_secrets", 53, <<"Loading secrets">>)
    IN  IF ~isfile(f, secrets_file)
        THEN [exc |-> "Exception", username |-> <<>>, password |-> <<>>,
              logs |-> <<loading, error("get_secrets", 56, <<"File does not exist!">>)>>]
        ELSE LET r == ScanLines(FileLines(f[secrets_file].data),
                                username_tag, password_tag, <<>>, <<>>)
             IN  IF r.username = <<>> \/ r.password = <<>>
                 THEN [exc |-> "ValueError", username |-> <<>>, password |-> <<>>,
                       logs |-> <<loading>>]
                 ELSE [exc |-> "None", username |-> r.username,
                       password |-> r.password,
                       logs |-> <<loading,
                                  info("get_secrets", 77, <<"Secrets loaded successfully!">>)>>]

\* The locals of send_email before it has run.
NoMessage == [created |-> FALSE, From |-> <<>>, To |-> <<>>, Subject |-> <<>>,
              body |-> <<>>, subtype |-> "none", parts |-> <<>>, text |-> FALSE]
NoLoc == [caller |-> "none", recipients |-> <<>>, subject |-> <<>>, body |-> <<>>,
          secrets_file |-> "none", username_tag |-> <<>>, password_tag |-> <<>>,
          log_file |-> "stdout", html |-> FALSE, attachments |-> None,
          username |-> <<>>, password |-> <<>>, i |-> 1, message |-> NoMessage]

\* ---------------------------------------------------------------- inputs

\* The secrets files of the runs: both default tags; default and second
\* pair of tags; the password tag missing.
SecretsDefault ==
    <<"g", "u", ":", " ", "a", NL, "g", "p", ":", " ", "x", NL>>
SecretsBoth ==
    SecretsDefault \o <<"w", "u", ":", " ", "w", NL, "w", "p", ":", " ", "y", NL>>
SecretsNoPassword == <<"g", "u", ":", " ", "a", NL>>
SecretsContents == {SecretsDefault, SecretsBoth, SecretsNoPassword}

\* The message files: recipients b,c / blank first line / empty first entry /
\* trailing empty entry / empty file / the sentinel DEBUG.
MessageTwo == <<"b", ",", "c", NL, "H", NL, "x", NL, "y", NL>>
MessageFiles ==
    { MessageTwo,
      <<" ", NL, "H", NL, "x", NL>>,
      <<",", "b", NL, "H", NL>>,
      <<"b", ",", NL, "H", NL>>,
      <<>>,
      DEBUG \o <<NL, "H", NL, "x", NL>> }

B == <<"b">>
C == <<"c">>
RecipientFlags == {NoneList, <<B, C>>, <<DEBUG>>}
SubjectFlag == <<"S">>
BodyFlag == <<"B">>
TestSubject == <<"Test Email">>
TestBody == <<"This is a test.">>
TestAttachmentText == <<"This is a test attachment.\n">>

RECURSIVE PathLists(_)
PathLists(n) ==
    IF n = 0 THEN {<<>>}
    ELSE LET shorter == PathLists(n - 1)
         IN  shorter \cup {<<p>> \o s : p \in AttachmentPaths, s \in shorter}
AttachmentArgs == {None} \cup (PathLists(MaxAttachments) \ {<<>>})

\* The one line of a file test.txt left in the working directory earlier.
OldLine == [level |-> "INFO", func |-> "earlier", line |-> 0, msg |-> <<"old">>]

\* The file systems a run may start in.
StartFs(secrets, message, test_exists) ==
    [EmptyFs EXCEPT !["secrets.txt"] = File(secrets),
                    !["msg.txt"] = message,
                    !["a.bin"] = File(<<1, 2>>),
                    !["test.txt"] = IF test_exists THEN File(<<OldLine>>) ELSE Absent]

\* The pairs (secrets path, contents of secrets.txt).
SecretsCases ==
    {<<"secrets.txt", c>> : c \in SecretsContents} \cup {<<"nosuch.txt", SecretsDefault>>}
TagPairs == {<<GU, GP>>, <<WU, WP>>}

\* python send_email.py [--log-file L] message ...
InitMessage ==
    \E sc \in SecretsCases, tags \in TagPairs, lf \in {"stdout", "app.log"},
       file \in {"None", "msg.txt", "nomsg.txt"},
       mf \in MessageFiles, r \in RecipientFlags,
       subject \in {None, SubjectFlag}, body \in {None, BodyFlag},
       att \in AttachmentArgs :
        /\ file # "msg.txt" => mf = MessageTwo
        /\ inp = [entry |-> "main", option |-> "message", file |-> file,
                  recipients |-> r,
                  subject |-> subject, body |-> body,
                  attachments |-> att, secrets_file |-> sc[1],
                  username_tag |-> tags[1], password_tag |-> tags[2],
                  include_attachment |-> FALSE, log_file |-> lf, old |-> FALSE]
        /\ fs = StartFs(sc[2], IF file = "msg.txt" THEN File(mf) ELSE Absent, FALSE)
        /\ pc = "main"
        /\ loc = NoLoc

\* python send_email.py [--log-file L] test ...          (entry "main")
\* test_send_email(...) called by an importing program   (entry "test_send_email")
InitTest ==
    \E sc \in SecretsCases, tags \in TagPairs, lf \in {"stdout", "app.log", "test.txt"},
       inc \in BOOLEAN, old \in BOOLEAN, entry \in {"main", "test_send_email"} :
        /\ inp = [entry |-> entry, option |-> "test", file |-> "None",
                  recipients |-> NoneList, subject |-> None, body |-> None,
                  attachments |-> None, secrets_file |-> sc[1],
                  username_tag |-> tags[1], password_tag |-> tags[2],
                  include_attachment |-> inc, log_file |-> lf, old |-> old]
        /\ fs = StartFs(sc[2], Absent, old)
        /\ pc = IF entry = "main" THEN "main" ELSE "test_send_email"
        /\ loc = NoLoc

\* send_email(...) called by an importing program.
InitSendEmail ==
    \E sc \in SecretsCases, r \in {<<>>, <<B>>, <<DEBUG>>}, html \in BOOLEAN,
       body \in {BodyFlag, None}, att \in AttachmentArgs :
        /\ inp = [entry |-> "send_email", option |-> "none", file |-> "None",
                  recipients |-> r, subject |-> SubjectFlag, body |-> body,
                  attachments |-> att, secrets_file |-> sc[1],
                  username_tag |-> GU, password_tag |-> GP,
                  include_attachment |-> FALSE, log_file |-> "stdout", old |-> FALSE]
        /\ fs = StartFs(sc[2], Absent, FALSE)
        /\ pc = "send_email"
        /\ loc = [NoLoc EXCEPT !.caller = "lib", !.recipients = r,
                               !.subject = SubjectFlag, !.body = body,
                               !.secrets_file = sc[1], !.username_tag = GU,
                               !.password_tag = GP, !.html = html,
                               !.attachments = att]

Init ==
    /\ InitMessage \/ InitTest \/ InitSendEmail
    /\ out = <<>>
    /\ loads = <<>>
    /\ smtp = <<>>
    /\ exc = "None"

\* The module global args: bound by the command line front end only.
ArgsDefined == inp.entry = "main"

\* ---------------------------------------------------------------- control

\* One or more log records written to the destination log_file.
Emit(log_file, recs) ==
    /\ out' = Printed(out, log_file, recs)
    /\ fs' = Appended(fs, log_file, recs)

\* Mutant of Handler: test_send_email has no except clause.
HandlerNoExcept(caller) == "crashed"

\* Where an exception raised in send_email goes: to the except clause of
\* test_send_email, or out of the program.
Handler(caller) == IF caller = "test_send_email" THEN "test_except" ELSE "crashed"

\* Where send_email returns to.
Continuation(caller) ==
    IF caller = "main" THEN "main_end"
    ELSE IF caller = "test_send_email"
         THEN (IF inp.include_attachment THEN "test_finally" ELSE "test_end")
         ELSE "done"

Raise(e) ==
    /\ exc' = e
    /\ pc' = Handler(loc.caller)

\* ---------------------------------------------------------------- __main__

\* The message file read: first line the recipients, second the subject, the
\* rest the body.
ParseMessageFile(data) ==
    [recipients |-> Split(Strip(ReadLine(data)), ","),
     subject |-> Strip(ReadLine(AfterLine(data))),
     body |-> AfterLine(AfterLine(data))]

\* Mutant of MessageSource: a --subject flag overrides the subject of the file.
MessageSourceMixed(args, f) ==
    IF args.file # "None"
    THEN [ParseMessageFile(f[args.file].data) EXCEPT
              !.subject = IF args.subject # None THEN args.subject ELSE @]
    ELSE [recipients |-> args.recipients, subject |-> args.subject,
          body |-> args.body]

\* Where recipients, subject and body come from: the file when --file is
\* given, the three flags otherwise.
MessageSource(args, f) ==
    IF args.file # "None"
    THEN ParseMessageFile(f[args.file].data)
    ELSE [recipients |-> args.recipients, subject |-> args.subject,
          body |-> args.body]

\* The arguments of the call of send_email in message mode; username_tag and
\* password_tag are not passed and take send_email's defaults.
MessageCall(args, f) ==
    LET m == MessageSource(args, f)
    IN  [NoLoc EXCEPT !.caller = "main", !.recipients = m.recipients,
                      !.subject = m.subject, !.body = m.body,
                      !.secrets_file = args.secrets_file,
                      !.username_tag = GU, !.password_tag = GP,
                      !.log_file = args.log_file, !.html = FALSE,
                      !.attachments = args.attachments]

\* if args.option == "message": the first log line and the usage check.
MainMessage ==
    /\ pc = "main" /\ inp.option = "message"
    /\ Emit(inp.log_file, <<info("main", 352, <<"====== INITIALIZING... ======">>)>>)
    /\ IF inp.file = "None" /\ inp.recipients = NoneList
       THEN pc' = "exit" /\ exc' = "SystemExit"        \* parser.error: status 2
       ELSE pc' = "message_source" /\ exc' = exc
    /\ UNCHANGED <<inp, loads, smtp, loc>>

\* The message read from the file or the flags, and the call of send_email.
MainMessageSource ==
    /\ pc = "message_source"
    /\ IF inp.file # "None" /\ ~isfile(fs, inp.file)
       THEN /\ Emit(inp.log_file, <<error("main", 359, <<"File does not exist!">>)>>)
            /\ pc' = "crashed" /\ exc' = "Exception"
            /\ loc' = loc
       ELSE IF inp.file # "None" /\ MessageSource(inp, fs).recipients[1] = <<>>
       THEN /\ Emit(inp.log_file, <<error("main", 364, <<"File is empty!">>)>>)
            /\ pc' = "crashed" /\ exc' = "Exception"
            /\ loc' = loc
       ELSE /\ loc' = MessageCall(inp, fs)
            /\ pc' = "send_email"
            /\ UNCHANGED <<fs, out, exc>>
    /\ UNCHANGED <<inp, loads, smtp>>

\* lg.info("====== TERMINATED ======") after send_email has returned.
MainMessageEnd ==
    /\ pc = "main_end"
    /\ Emit(inp.log_file, <<info("main", 380, <<"====== TERMINATED ======">>)>>)
    /\ pc' = "done"
    /\ UNCHANGED <<inp, loads, smtp, loc, exc>>

\* if args.option == "test": the call of test_send_email.
MainTest ==
    /\ pc = "main" /\ inp.option = "test"
    /\ pc' = "test_send_email"
    /\ UNCHANGED <<inp, fs, out, loads, smtp, loc, exc>>

\* ---------------------------------------------------------------- test_send_email

\* The arguments of the calls of send_email made by test_send_email.
TestCall(secrets_file, attachments) ==
    [NoLoc EXCEPT !.caller = "test_send_email", !.recipients = <<DEBUG>>,
                  !.subject = TestSubject, !.body = TestBody,
                  !.secrets_file = secrets_file,
                  !.username_tag = inp.username_tag,
                  !.password_tag = inp.password_tag,
                  !.log_file = inp.log_file, !.html = FALSE,
                  !.attachments = attachments]

\* The secrets_file argument of the call made without an attachment: the
\* module global args.secrets_file, not the parameter secrets_file.
NoAttachmentSecretsFile == inp.secrets_file

\* test_send_email up to the call of send_email: the two log lines, then with
\* include_attachment the exclusive creation of test.txt, and the call.
TestStart ==
    /\ pc = "test_send_email"
    /\ LET logs == <<info("test_send_email", 192, <<"====== INITIALIZING... ======">>),
                     info("test_send_email", 194, <<"Attempting to send test email...">>)>>
           fs1 == Appended(fs, inp.log_file, logs)
       IN  /\ out' = Printed(out, inp.log_file, logs)
           /\ IF inp.include_attachment
              THEN IF isfile(fs1, "test.txt")
                   THEN /\ fs' = fs1          \* open("test.txt", "x") fails
                        /\ pc' = "crashed" /\ exc' = "FileExistsError"
                        /\ loc' = loc
                   ELSE /\ fs' = [fs1 EXCEPT !["test.txt"] = File(TestAttachmentText)]
                        /\ loc' = TestCall(inp.secrets_file, <<"test.txt">>)
                        /\ pc' = "send_email" /\ exc' = exc
              ELSE /\ fs' = fs1
                   /\ IF ArgsDefined
                      THEN /\ loc' = TestCall(NoAttachmentSecretsFile, None)
                           /\ pc' = "send_email" /\ exc' = exc
                      ELSE /\ loc' = loc      \* name 'args' is not defined
                           /\ pc' = "test_except" /\ exc' = "NameError"
    /\ UNCHANGED <<inp, loads, smtp>>

\* except Exception as e: the exception is logged and goes no further.
TestExcept ==
    /\ pc = "test_except"
    /\ Emit(inp.log_file,
            <<error("test_send_email", IF inp.include_attachment THEN 214 ELSE 232,
                    ExceptionOccurred(exc))>>)
    /\ exc' = "None"
    /\ pc' = IF inp.include_attachment THEN "test_finally" ELSE "test_end"
    /\ UNCHANGED <<inp, loads, smtp, loc>>

\* finally: test_file.close() and remove("test.txt").
TestFinally ==
    /\ pc = "test_finally"
    /\ fs' = [fs EXCEPT !["test.txt"] = Absent]
    /\ pc' = "test_end"
    /\ UNCHANGED <<inp, out, loads, smtp, loc, exc>>

\* lg.info("====== TERMINATED ======") and the return.
TestEnd ==
    /\ pc = "test_end"
    /\ Emit(inp.log_file, <<info("test_send_email", 234, <<"====== TERMINATED ======">>)>>)
    /\ pc' = "done"
    /\ UNCHANGED <<inp, loads, smtp, loc, exc>>

\* ---------------------------------------------------------------- send_email

\* The credentials are read: get_secrets with the arguments of send_email.
SendEmailGetSecrets ==
    /\ pc = "send_email"
    /\ LET r == get_secrets(fs, loc.secrets_file, loc.username_tag, loc.password_tag)
       IN  /\ loads' = Append(loads, [file |-> loc.secrets_file,
                                      utag |-> loc.username_tag,
                                      ptag |-> loc.password_tag])
           /\ Emit(loc.log_file, r.logs)
           /\ loc' = [loc EXCEPT !.username = r.username, !.password = r.password]
           /\ IF r.exc = "None" THEN pc' = "compose" /\ exc' = exc ELSE Raise(r.exc)
    /\ UNCHANGED <<inp, smtp>>

\* Mutant of EffectiveRecipients: the sentinel is sent as an address.
EffectiveRecipientsKept(recipients, username) == recipients

\* The effective recipients: ["DEBUG"] addresses the email to the sender.
EffectiveRecipients(recipients, username) ==
    IF recipients = <<DEBUG>> THEN <<username>> ELSE recipients

\* The MIMEMultipart message with its headers and its body part.
NewMessage(username, recipients, subject, body, html) ==
    [created |-> TRUE, From |-> username, To |-> Join(recipients, <<",", " ">>),
     Subject |-> subject, body |-> body,
     subtype |-> IF html THEN "html" ELSE "plain", parts |-> <<>>, text |-> FALSE]

\* The recipients are resolved and the message is created; MIMEText(None)
\* raises AttributeError.
SendEmailCompose ==
    /\ pc = "compose"
    /\ LET rcpt == EffectiveRecipients(loc.recipients, loc.username)
       IN  /\ Emit(loc.log_file, <<info("send_email", 132, <<"Creating new email">>)>>)
           /\ IF loc.body = None
              THEN /\ loc' = [loc EXCEPT !.recipients = rcpt]
                   /\ Raise("AttributeError")
              ELSE /\ loc' = [loc EXCEPT !.recipients = rcpt,
                                         !.message = NewMessage(loc.username, rcpt,
                                                        loc.subject, loc.body, loc.html)]
                   /\ pc' = "attach" /\ exc' = exc
    /\ UNCHANGED <<inp, loads, smtp>>

\* The MIME part of one attachment: octet-stream, base64, the file's name.
AttachmentPart(path, data) ==
    [maintype |-> "application", subtype |-> "octet-stream", cte |-> "base64",
     filename |-> path, payload |-> data]

\* Mutant of SendEmailAttach: a file that cannot be opened is skipped.
SendEmailAttachSkips ==
    /\ pc = "attach"
    /\ loc.attachments # None
    /\ loc.i <= Len(loc.attachments)
    /\ LET path == loc.attachments[loc.i]
       IN  /\ Emit(loc.log_file, <<debug("send_email", 144, <<"Attaching", path>>)>>)
           /\ loc' = [loc EXCEPT !.i = @ + 1,
                                 !.message.parts =
                                     IF isfile(fs, path)
                                     THEN Append(@, AttachmentPart(path, fs[path].data))
                                     ELSE @]
           /\ pc' = pc /\ exc' = exc
    /\ UNCHANGED <<inp, loads, smtp>>

\* One turn of the loop over attachments: the file is opened and read, and
\* its part attached; a file that cannot be opened raises OSError.
SendEmailAttach ==
    /\ pc = "attach"
    /\ loc.attachments # None
    /\ loc.i <= Len(loc.attachments)
    /\ LET path == loc.attachments[loc.i]
       IN  /\ Emit(loc.log_file, <<debug("send_email", 144, <<"Attaching", path>>)>>)
           /\ IF isfile(fs, path)
              THEN /\ loc' = [loc EXCEPT !.i = @ + 1,
                                         !.message.parts =
                                             Append(@, AttachmentPart(path, fs[path].data))]
                   /\ pc' = pc /\ exc' = exc
              ELSE /\ loc' = loc
                   /\ Raise("OSError")
    /\ UNCHANGED <<inp, loads, smtp>>

\* text = message.as_string(), once every attachment is attached.
SendEmailSerialize ==
    /\ pc = "attach"
    /\ loc.attachments = None \/ loc.i > Len(loc.attachments)
    /\ loc' = [loc EXCEPT !.message.text = TRUE]
    /\ pc' = "connect"
    /\ UNCHANGED <<inp, fs, out, loads, smtp, exc>>

SmtpHost == <<"smtp.gmail.com">>
SmtpPort == 587

\* SMTP("smtp.gmail.com", 587): the connection, which may fail.
SendEmailConnect ==
    /\ pc = "connect"
    /\ \E ok \in BOOLEAN :
          /\ smtp' = Append(smtp, [op |-> "connect", ok |-> ok,
                                   host |-> SmtpHost, port |-> SmtpPort])
          /\ IF ok THEN pc' = "starttls" /\ exc' = exc ELSE Raise("OSError")
    /\ UNCHANGED <<inp, fs, out, loads, loc>>

\* What a failed step inside the with block leaves: the step, then __exit__.
Aborted(op) == <<op, [op |-> "quit", ok |-> TRUE]>>

\* server.starttls()
SendEmailStartTLS ==
    /\ pc = "starttls"
    /\ \E ok \in BOOLEAN :
          LET op == [op |-> "starttls", ok |-> ok]
          IN  IF ok THEN smtp' = Append(smtp, op) /\ pc' = "login" /\ exc' = exc
              ELSE smtp' = smtp \o Aborted(op) /\ Raise("SMTPException")
    /\ UNCHANGED <<inp, fs, out, loads, loc>>

\* server.login(username, password)
SendEmailLogin ==
    /\ pc = "login"
    /\ \E ok \in BOOLEAN :
          LET op == [op |-> "login", ok |-> ok, user |-> loc.username,
                     password |-> loc.password]
          IN  IF ok THEN smtp' = Append(smtp, op) /\ pc' = "sendmail" /\ exc' = exc
              ELSE smtp' = smtp \o Aborted(op) /\ Raise("SMTPException")
    /\ UNCHANGED <<inp, fs, out, loads, loc>>

\* server.sendmail(username, recipients, text), then the end of the with block.
SendEmailSendmail ==
    /\ pc = "sendmail"
    /\ \E ok \in BOOLEAN :
          LET op == [op |-> "sendmail", ok |-> ok, from |-> loc.username,
                     to |-> loc.recipients, msg |-> loc.message]
          IN  /\ smtp' = smtp \o Aborted(op)
              /\ IF ok THEN pc' = "sent" /\ exc' = exc ELSE Raise("SMTPException")
    /\ UNCHANGED <<inp, fs, out, loads, loc>>

\* lg.info("Email sent successfully!") and the return to the caller.
SendEmailSent ==
    /\ pc = "sent"
    /\ Emit(loc.log_file, <<info("send_email", 162, <<"Email sent successfully!">>)>>)
    /\ pc' = Continuation(loc.caller)
    /\ UNCHANGED <<inp, loads, smtp, loc, exc>>

Next ==
    \/ MainMessage
    \/ MainMessageSource
    \/ MainMessageEnd
    \/ MainTest
    \/ TestStart
    \/ TestExcept
    \/ TestFinally
    \/ TestEnd
    \/ SendEmailGetSecrets
    \/ SendEmailCompose
    \/ SendEmailAttach
    \/ SendEmailSerialize
    \/ SendEmailConnect
    \/ SendEmailStartTLS
    \/ SendEmailLogin
    \/ SendEmailSendmail
    \/ SendEmailSent

Spec == Init /\ [][Next]_vars

\* ---------------------------------------------------------------- SpecSecrets
\* get_secrets called on its own, on every secrets file of at most MaxLines
\* lines drawn from SecretLines, with every pair of tags of SecretTags.

SecretLines ==
    { <<"g", "u", ":", " ", "a", NL>>,        \* gu: a
      <<"g", "u", ":", "b", " ", NL>>,        \* gu:b
      <<"g", "u", ":", NL>>,                  \* gu:      (present, empty value)
      <<"g", "u", "2", ":", "c", NL>>,        \* gu2:c    (gu is a prefix of gu2)
      <<"g", "p", ":", " ", "x", NL>>,        \* gp: x
      <<"g", "p", ":", "y", ":", "z", NL>>,   \* gp:y:z   (a second ':' in the value)
      <<"g", "p", ":", " ", "\t", NL>> }      \* gp:      (whitespace only)

SecretTags == {GU, GP, G}

RECURSIVE SecretFiles(_)
SecretFiles(n) ==
    IF n = 0 THEN {<<>>}
    ELSE LET shorter == SecretFiles(n - 1)
         IN  shorter \cup {l \o s : l \in SecretLines, s \in shorter}

SecretsInit ==
    /\ pc = "get_secrets"
    /\ \E ut \in SecretTags, pt \in SecretTags, sf \in SecretsPaths,
          lf \in {"stdout", "app.log"} :
          inp = [entry |-> "get_secrets", secrets_file |-> sf,
                 username_tag |-> ut, password_tag |-> pt, log_file |-> lf]
    /\ \E content \in SecretFiles(MaxLines) :
          /\ inp.secrets_file = "nosuch.txt" => content = <<>>
          /\ fs = [EmptyFs EXCEPT !["secrets.txt"] = File(content)]
    /\ out = <<>>
    /\ loads = <<>>
    /\ smtp = <<>>
    /\ loc = NoLoc
    /\ exc = "None"

\* One call of get_secrets with the arguments of the invocation.
CallGetSecrets ==
    /\ pc = "get_secrets"
    /\ LET r == get_secrets(fs, inp.secrets_file, inp.username_tag, inp.password_tag)
       IN  /\ loads' = Append(loads, [file |-> inp.secrets_file,
                                      utag |-> inp.username_tag,
                                      ptag |-> inp.password_tag])
           /\ out' = Printed(out, inp.log_file, r.logs)
           /\ fs' = Appended(fs, inp.log_file, r.logs)
           /\ loc' = [loc EXCEPT !.username = r.username, !.password = r.password]
           /\ exc' = r.exc
           /\ pc' = IF r.exc = "None" THEN "returned" ELSE "raised"
    /\ UNCHANGED <<inp, smtp>>

SecretsNext == CallGetSecrets

SpecSecrets == SecretsInit /\ [][SecretsNext]_vars

\* The lines of the secrets file of the invocation, and the positions of
\* those that begin with a tag.
SecretsLines == FileLines(fs[inp.secrets_file].data)
Matching(tag) == {i \in 1..Len(SecretsLines) : StartsWith(SecretsLines[i], tag)}
ValueAt(i) == Strip(PartitionTail(SecretsLines[i], ":"))
GetSecretsEnded ==
    /\ inp.entry = "get_secrets"
    /\ pc \in {"returned", "raised"}
    /\ isfile(fs, inp.secrets_file)

\* C1 (as claimed): for an existing secrets file, when both tags begin some
\* line get_secrets returns the trimmed text after the first ':' of a matching
\* line for each tag (an empty or whitespace-only value included), and when
\* either tag begins no line it fails with ValueError.
C1_PresentTagsReturned ==
    GetSecretsEnded =>
        LET U == Matching(inp.username_tag)
            P == Matching(inp.password_tag)
        IN  /\ (U # {} /\ P # {}) =>
                   /\ pc = "returned"
                   /\ \E i \in U : loc.username = ValueAt(i)
                   /\ \E j \in P : loc.password = ValueAt(j)
            /\ (U = {} \/ P = {}) => (pc = "raised" /\ exc = "ValueError")

\* C2 (as claimed): first match wins: on success the value returned for a
\* tag is the one of the first line that begins with the tag.
C2_FirstMatchWins ==
    (GetSecretsEnded /\ pc = "returned") =>
        /\ loc.username = ValueAt(MinOf(Matching(inp.username_tag)))
        /\ loc.password = ValueAt(MinOf(Matching(inp.password_tag)))

\* C2 (amended): last match wins: on success the value returned for a tag is
\* the one of the last line that begins with the tag, prefix matches included.
C2_LastMatchWins ==
    (GetSecretsEnded /\ pc = "returned") =>
        /\ Matching(inp.username_tag) # {}
        /\ Matching(inp.password_tag) # {}
        /\ loc.username = ValueAt(MaxOf(Matching(inp.username_tag)))
        /\ loc.password = ValueAt(MaxOf(Matching(inp.password_tag)))

\* C2 witness: a successful load from a file in which two lines begin with the
\* username tag, one of them only by prefix, and carry different values.
C2_Witness ==
    /\ GetSecretsEnded /\ pc = "returned"
    /\ inp.username_tag = GU
    /\ \E i, j \in Matching(GU) :
          /\ i < j
          /\ StartsWith(SecretsLines[j], <<"g", "u", "2">>)
          /\ ValueAt(i) # ValueAt(j)
          /\ j = MaxOf(Matching(GU))

\* ---------------------------------------------------------------- properties

\* The log lines this run has written, wherever they went.
RunLog ==
    IF IsStdout(inp.log_file) THEN out
    ELSE LET d == fs[inp.log_file].data
         IN  IF inp.log_file = "test.txt" /\ inp.old THEN Tail(d) ELSE d
Logged(rec) == \E k \in 1..Len(RunLog) : RunLog[k] = rec

\* send_email has been called, and its positions.
SendCalled == loc.caller # "none"
SmtpPositions == {"connect", "starttls", "login", "sendmail", "sent"}
Ops(name) == {k \in 1..Len(smtp) : smtp[k].op = name}

\* C3: when the secrets file of a call of send_email does not exist, the call
\* fails with the Exception of get_secrets, raised by its one call, and at no
\* point of the run has a message been created or an SMTP step been attempted.
C3_MissingSecretsNoNetwork ==
    (SendCalled /\ ~isfile(fs, loc.secrets_file)) =>
        /\ smtp = <<>>
        /\ ~loc.message.created
        /\ pc \notin SmtpPositions \cup {"compose", "attach", "main_end"}
        /\ pc # "send_email" =>
              /\ Len(loads) = 1 /\ loads[1].file = loc.secrets_file
              /\ loc.caller \in {"main", "lib"} => (pc = "crashed" /\ exc = "Exception")
              /\ loc.caller = "test_send_email" =>
                    \/ pc = "test_except" /\ exc = "Exception"
                    \/ /\ pc \in {"test_finally", "test_end", "done"}
                       /\ \E l \in {214, 232} :
                             Logged(error("test_send_email", l, ExceptionOccurred("Exception")))

\* C3 witness: send_email has failed on a secrets file that does not exist.
C3_Witness ==
    /\ SendCalled /\ ~isfile(fs, loc.secrets_file)
    /\ pc = "crashed" /\ exc = "Exception" /\ Len(loads) = 1

\* C4 (as claimed): test_send_email without an attachment, on a secrets file
\* that holds both tags, loads the secrets once from the secrets_file it was
\* given and makes one send attempt, to the sender alone, with subject
\* "Test Email" and body "This is a test.", whoever the caller is.
C4_TestSendsOnceToSender ==
    (inp.option = "test" /\ ~inp.include_attachment /\ pc = "done"
        /\ get_secrets(fs, inp.secrets_file, inp.username_tag, inp.password_tag).exc = "None")
    => LET u == get_secrets(fs, inp.secrets_file, inp.username_tag,
                            inp.password_tag).username
       IN  /\ Len(loads) = 1 /\ loads[1].file = inp.secrets_file
           /\ Cardinality(Ops("connect")) = 1
           /\ loc.recipients = <<u>>
           /\ loc.message.created
           /\ loc.message.Subject = TestSubject /\ loc.message.body = TestBody
           /\ \A k \in Ops("sendmail") : smtp[k].to = <<u>>

\* Evidence in the state that the send call of the run has raised: the name
\* args was unbound, get_secrets failed, or an SMTP step failed.
SendRaised ==
    \/ inp.option = "test" /\ ~inp.include_attachment /\ ~ArgsDefined
          /\ pc \notin {"main", "test_send_email"}
    \/ /\ loads # <<>>
       /\ get_secrets(fs, loc.secrets_file, loc.username_tag, loc.password_tag).exc # "None"
    \/ SendCalled /\ loc.body = None /\ pc \notin {"send_email", "compose"}
    \/ \E k \in 1..Len(smtp) : ~smtp[k].ok

\* What C5 says of each state of a run.
C5_Safety ==
    /\ (inp.option = "test" /\ (SendCalled \/ SendRaised)) =>
          /\ pc # "crashed"
          /\ exc # "None" => pc = "test_except"
          /\ pc = "test_except" => ENABLED TestExcept
          /\ pc = "test_finally" => ENABLED TestFinally
          /\ pc = "test_end" => ENABLED TestEnd
          /\ (SendRaised /\ pc \in {"test_finally", "test_end", "done"}) =>
                \E l \in {214, 232}, e \in {"Exception", "ValueError", "NameError",
                                           "OSError", "SMTPException"} :
                    Logged(error("test_send_email", l, ExceptionOccurred(e)))
          /\ pc = "done" =>
                /\ exc = "None"
                /\ RunLog[Len(RunLog)] =
                       info("test_send_email", 234, <<"====== TERMINATED ======">>)
    /\ inp.option = "message" =>
          /\ pc # "test_except"
          /\ \A k \in 1..Len(RunLog) :
                RunLog[k].msg[1] # "Exception occurred"
          /\ SendRaised => (pc = "crashed" /\ exc # "None")
          /\ Logged(info("main", 380, <<"====== TERMINATED ======">>)) =>
                /\ pc = "done"
                /\ \E k \in Ops("sendmail") : smtp[k].ok

\* What C5 says of each step of a test-mode run from the except clause on:
\* the exception is logged and cleared, and the run moves on to its end.
C5_Step ==
    inp.option = "test" =>
        /\ pc = "test_except" =>
              /\ pc' \in {"test_finally", "test_end"}
              /\ exc' = "None"
              /\ Len(RunLog') = Len(RunLog) + 1
              /\ RunLog'[Len(RunLog')].level = "ERROR"
              /\ RunLog'[Len(RunLog')].msg = ExceptionOccurred(exc)
        /\ pc = "test_finally" => pc' = "test_end"
        /\ pc = "test_end" =>
              /\ pc' = "done"
              /\ RunLog'[Len(RunLog')] =
                     info("test_send_email", 234, <<"====== TERMINATED ======">>)

\* C5: in test mode an error raised by the send call never leaves
\* test_send_email: it is logged as an ERROR line, the run goes on and ends
\* with '====== TERMINATED ======' logged; in message mode an error of the
\* send call leaves the program uncaught and '====== TERMINATED ======' is
\* logged only after a successful sendmail.
C5_TestCatchesMessagePropagates == []C5_Safety /\ [][C5_Step]_vars

\* C5 witness: a test-mode run whose SMTP login failed has ended at its end,
\* the error caught and logged.
C5_Witness ==
    /\ inp.option = "test" /\ pc = "done" /\ exc = "None"
    /\ \E k \in Ops("login") : ~smtp[k].ok
    /\ Logged(error("test_send_email", 214, ExceptionOccurred("SMTPException")))

\* C6: when a file of the attachments list of send_email cannot be opened,
\* whatever its position in the list, no SMTP connection is opened, sendmail
\* is never invoked, the message is never serialized, and the call ends with
\* the I/O error once the loop reaches that file.
C6_UnreadableAttachmentNoSend ==
    (loc.caller \in {"main", "lib"} /\ loc.attachments # None
        /\ \E j \in 1..Len(loc.attachments) : ~isfile(fs, loc.attachments[j]))
    => /\ smtp = <<>>
       /\ ~loc.message.text
       /\ pc \notin SmtpPositions \cup {"main_end", "done"}
       /\ (pc = "crashed" /\ loc.message.created) =>
             /\ exc = "OSError"
             /\ ~isfile(fs, loc.attachments[loc.i])
             /\ Len(loc.message.parts) = loc.i - 1

\* C6 witness: the second attachment could not be opened after the first had
\* been attached.
C6_Witness ==
    /\ loc.caller = "main" /\ pc = "crashed" /\ exc = "OSError"
    /\ loc.i = 2 /\ Len(loc.message.parts) = 1
    /\ smtp = <<>>

\* The message file of a message-mode run, read line by line.
MessageLines == FileLines(fs[inp.file].data)
FileRecipients ==
    IF MessageLines = <<>> THEN <<<<>>>> ELSE Split(Strip(MessageLines[1]), ",")
FileSubject == IF Len(MessageLines) < 2 THEN <<>> ELSE Strip(MessageLines[2])
FileBody == Join(SubSeq(MessageLines, 3, Len(MessageLines)), <<>>)

\* C7: in message mode recipients, subject and body all come from the message
\* file when --file is given and all from the three flags otherwise, never a
\* mix; with neither --file nor --recipients the run ends in the usage error
\* before any secrets load or SMTP step, and only then.
C7_OneSourceOrUsageError ==
    inp.option = "message" =>
        /\ (loc.caller = "main" /\ inp.file # "None") =>
              /\ loc.subject = FileSubject /\ loc.body = FileBody
              /\ pc = "send_email" => loc.recipients = FileRecipients
              /\ fs[inp.file].data = MessageTwo =>
                    /\ loc.subject = <<"H">>
                    /\ loc.body = <<"x", NL, "y", NL>>
                    /\ loc.recipients = <<B, C>>
        /\ (loc.caller = "main" /\ inp.file = "None") =>
              /\ loc.subject = inp.subject /\ loc.body = inp.body
              /\ pc = "send_email" => loc.recipients = inp.recipients
        /\ (inp.file = "None" /\ inp.recipients = NoneList /\ pc # "main") =>
              /\ pc = "exit" /\ exc = "SystemExit"
              /\ ~SendCalled /\ loads = <<>> /\ smtp = <<>>
        /\ pc = "exit" => (inp.file = "None" /\ inp.recipients = NoneList)

\* C7 witness: --file and the three flags were all given, and send_email is
\* called with what the file holds.
C7_Witness ==
    /\ inp.option = "message" /\ inp.file = "msg.txt"
    /\ inp.recipients = <<DEBUG>> /\ inp.subject = SubjectFlag
    /\ pc = "send_email" /\ loc.caller = "main"
    /\ loc.recipients = <<B, C>> /\ loc.subject = <<"H">>

\* The recipients given to send_email by a command line run.
GivenRecipients ==
    IF inp.option = "test" THEN <<DEBUG>>
    ELSE IF inp.file # "None" THEN FileRecipients ELSE inp.recipients
FirstEntryEmpty ==
    LET first == IF MessageLines = <<>> THEN <<>> ELSE Strip(MessageLines[1])
    IN  first = <<>> \/ first[1] = ","

\* C8: in every command line run, once the message is created and at the
\* sendmail step the recipient list is not empty; a message file whose first
\* line is blank or starts with an empty entry is rejected before any secrets
\* load or SMTP step; and ["DEBUG"] is replaced by the list of the one
\* username read from the secrets file.
C8_RecipientsNonEmpty ==
    inp.entry = "main" =>
        /\ loc.message.created => Len(loc.recipients) >= 1
        /\ \A k \in Ops("sendmail") : Len(smtp[k].to) >= 1 /\ smtp[k].to = loc.recipients
        /\ (inp.option = "message" /\ inp.file # "None" /\ isfile(fs, inp.file)
               /\ FirstEntryEmpty /\ pc \notin {"main", "message_source"}) =>
              /\ pc = "crashed" /\ exc = "Exception"
              /\ ~SendCalled /\ loads = <<>> /\ smtp = <<>>
              /\ Logged(error("main", 364, <<"File is empty!">>))
        /\ (loc.message.created /\ GivenRecipients = <<DEBUG>>) =>
              /\ loc.username # <<>>
              /\ loc.recipients = <<loc.username>>
              /\ loc.message.To = loc.username

\* C8 witness: a message file naming DEBUG has led to a sendmail addressed to
\* the sender alone.
C8_Witness ==
    /\ inp.entry = "main" /\ inp.option = "message" /\ inp.file = "msg.txt"
    /\ GivenRecipients = <<DEBUG>>
    /\ \E k \in Ops("sendmail") : smtp[k].to = <<<<"a">>>> /\ smtp[k].ok

\* C9 (as claimed): with include_attachment, when no test.txt exists at the
\* start the file exists when send_email is called and is gone when the run
\* has ended, whatever the outcome; when test.txt exists at the start the run
\* fails at the creation with the file kept as it was and nothing loaded or
\* sent.
C9_AttachmentSelfDeleting ==
    (inp.option = "test" /\ inp.include_attachment) =>
        /\ ~inp.old =>
              /\ pc = "send_email" => isfile(fs, "test.txt")
              /\ pc \in {"done", "crashed"} => ~isfile(fs, "test.txt")
        /\ (inp.old /\ pc \notin {"main", "test_send_email"}) =>
              /\ pc = "crashed" /\ exc = "FileExistsError"
              /\ isfile(fs, "test.txt") /\ fs["test.txt"].data[1] = OldLine
              /\ ~SendCalled /\ loads = <<>> /\ smtp = <<>>

\* C10 (as claimed): in message mode get_secrets is called with the tags of
\* --username-tag and --password-tag.
C10_MessageUsesGivenTags ==
    inp.option = "message" =>
        \A k \in 1..Len(loads) :
            /\ loads[k].utag = inp.username_tag
            /\ loads[k].ptag = inp.password_tag

====
